---- MODULE Spec2Model ----
(***************************************************************************)
(* State-machine model of the KIPRIM DC310S controller, src/UI-v3.py       *)
(* (class DC310SGUI): serial session, command exchange, 1 Hz measurement   *)
(* tick with accumulators and auto-reset policy, bounded histories, and    *)
(* the two-click preset load.  Every Tk callback runs to completion on the *)
(* single Tk thread, so each handler is one action.                        *)
(*                                                                         *)
(* Numbers are fixed-point: volts and amperes in tenths (5.0 V = 50),      *)
(* watts and joules in hundredths (5.0 V * 1.0 A = 500).                    *)
(***************************************************************************)
EXTENDS Integers, Sequences, FiniteSets, TLC

VARIABLES
    serial_conn,        \* self.serial_conn: None, or the open serial.Serial
    leaked,             \* serial.Serial objects still open that nothing refers to
    voltage_history,    \* deque(maxlen=100)
    current_history,    \* deque(maxlen=100)
    output_voltage,     \* self.output_voltage
    output_power,       \* self.output_power
    preset_click_stage, \* 0 = Idle, 1 = AwaitingConfirm
    elapsed_seconds,
    energy_ws,
    auto_reset_mode,    \* dict timer/energy/all -> mode string
    presets,            \* dict name -> {voltage, current}
    preset_listbox,     \* the display strings of the listbox, in order
    preset_display_map, \* dict display string -> preset name
    voltage_entry,      \* text of the "Set Voltage" entry
    current_entry,      \* text of the "Set Current" entry
    meas_voltage,       \* text of the measured-voltage label
    meas_current,       \* text of the measured-current label
    status_indicator,   \* "red" / "green"
    buttons,            \* state of the Output ON / Output OFF buttons
    load_preset_button, \* background of the LOAD button
    pending,            \* number of root.after(1000, periodic_refresh) timers pending
    wire,               \* lines written to the transport by the last handler
    calls,              \* commands the last handler passed to send_command
    last,               \* name of the last handler that ran
    nticks              \* connected ticks made since the initial state (bounds the model)

vars == <<serial_conn, leaked, voltage_history, current_history, output_voltage,
          output_power, preset_click_stage, elapsed_seconds, energy_ws,
          auto_reset_mode, presets, preset_listbox, preset_display_map,
          voltage_entry, current_entry, meas_voltage, meas_current,
          status_indicator, buttons, load_preset_button, pending, wire, calls,
          last, nticks>>

-----------------------------------------------------------------------------
(* Bounds of the model *)

\* connected ticks explored
MaxTicks == 2
\* serial.Serial objects left open and unreferenced
MaxLeaked == 1
\* presets saved by the user
MaxSaves == 1
\* connected ticks already made when a long-running session is picked up
WarmTicks == 99

-----------------------------------------------------------------------------
(* Program constants *)

\* deque(maxlen=100)
maxlen == 100
\* get_output_state: output_voltage > 0.5, in tenths of a volt
OutputThreshold == 5

\* Python's None. Replies are stripped lines, so no reply equals this text.
None == "<None>"

RESET_ON == "reset on output on"
RESET_OFF == "reset on output off"
NO_RESET == "no reset"
Modes == {RESET_ON, RESET_OFF, NO_RESET}
Keys == {"timer", "energy", "all"}

-----------------------------------------------------------------------------
(* Bounded input sets *)

\* stripped reply lines the device may give to measure:voltage?
VoltageLines == {"", "abc", "0.2", "5.0"}
\* ... to measure:current?
CurrentLines == {"", "abc", "1.0"}
\* ... to voltage? / current?
SetpointLines == {"", "12.0"}
\* ... to any command: a read timeout (empty line), a malformed line, a number
ReplyLines == {"", "ERR", "12.0"}
\* texts the user may type into a setpoint entry
EntryTexts == {"abc", "5"}
\* names the user may give in the "Preset Name" dialog (None/"" = cancelled)
DialogNames == {None, "", "USB Power Supply", "Bench"}

-----------------------------------------------------------------------------
(* Python conversions on the texts and numbers of the bounded sets *)

\* float(text) for the texts that parse; every other text raises ValueError
\* and None raises TypeError
FloatOf ==
    ("0.2" :> 2 @@ "0.5" :> 5 @@ "5.0" :> 50 @@ "5" :> 50 @@ "1.0" :> 10 @@
     "2.0" :> 20 @@ "3.0" :> 30 @@ "12.0" :> 120 @@ "13.7" :> 137 @@ "-1.0" :> -10)

\* str(x) of a float
StrOf ==
    (2 :> "0.2" @@ 5 :> "0.5" @@ 50 :> "5.0" @@ 10 :> "1.0" @@ 20 :> "2.0" @@
     30 :> "3.0" @@ 120 :> "12.0" @@ 137 :> "13.7" @@ -10 :> "-1.0")

\* f"{x:.3f}"
Fmt3 ==
    (2 :> "0.200" @@ 5 :> "0.500" @@ 50 :> "5.000" @@ 10 :> "1.000" @@
     20 :> "2.000" @@ 30 :> "3.000" @@ 120 :> "12.000" @@ 137 :> "13.700" @@
     -10 :> "-1.000")

\* float(s) returns (does not raise)
Parses(s) == s \in DOMAIN FloatOf

\* mutant of Truthy: only None counts as false
Truthy_NotNone(s) == s # None

\* truth value of a str-or-None
Truthy(s) == s # None /\ s # ""

\* f"{name} ({voltage}V, {current}A)"
Display(name, voltage, current) ==
    name \o " (" \o StrOf[voltage] \o "V, " \o StrOf[current] \o "A)"

\* mutant of DequeAppend: a full deque drops the sample before the newest
DequeAppend_DropNewest(d, x) ==
    IF Len(d) >= maxlen THEN Append(SubSeq(d, 1, Len(d) - 1), x) ELSE Append(d, x)

\* mutant of DequeAppend: a reading of 0 (a failed parse) is not recorded
DequeAppend_SkipZero(d, x) ==
    IF x = 0 THEN d
    ELSE IF Len(d) >= maxlen THEN Append(Tail(d), x) ELSE Append(d, x)

\* deque.append on a deque(maxlen=100)
DequeAppend(d, x) ==
    IF Len(d) >= maxlen THEN Append(Tail(d), x) ELSE Append(d, x)

-----------------------------------------------------------------------------
(* Transport and command exchange *)

\* a serial.Serial object whose is_open is True.  close() is called only by
\* disconnect(), which drops the object in the same handler, so self.serial_conn
\* never refers to a closed one.
Serial == "<Serial open>"

\* what one exchange with the device does: every step returns and the device's
\* line is read (an empty line on a read timeout), or one step raises
IOErrors == {"flush_err", "write_err", "read_err"}
Outcomes(lines, errs) ==
    {[io |-> "ok", line |-> l] : l \in lines} \cup {[io |-> e, line |-> ""] : e \in errs}

\* mutant of IsOpen: the connection is taken to be open without looking
IsOpen_Always(conn) == TRUE

\* self.serial_conn and self.serial_conn.is_open
IsOpen(conn) == conn # None /\ conn = Serial

\* (cmd + '\n')
Frame(cmd) == cmd \o "\n"

\* mutant of send_command: the "not connected" early return is missing
send_command_Unguarded(conn, cmd, x) ==
    IF x.io = "flush_err" THEN [ret |-> None, out |-> <<>>, ops |-> <<"reset_input_buffer">>]
    ELSE IF x.io = "write_err"
    THEN [ret |-> None, out |-> <<>>, ops |-> <<"reset_input_buffer", "write">>]
    ELSE IF x.io = "read_err"
    THEN [ret |-> None, out |-> <<Frame(cmd)>>,
          ops |-> <<"reset_input_buffer", "write", "readline">>]
    ELSE [ret |-> x.line, out |-> <<Frame(cmd)>>,
          ops |-> <<"reset_input_buffer", "write", "readline">>]

\* send_command(cmd) on connection conn with the exchange going as x:
\* ret is the value returned, out the lines written to the transport, ops the
\* methods of the transport that were called (the last one raised when x.io
\* names an error).  The bare except turns every exception into a None return.
send_command(conn, cmd, x) ==
    IF ~IsOpen(conn) THEN [ret |-> None, out |-> <<>>, ops |-> <<>>]
    ELSE IF x.io = "flush_err"
    THEN [ret |-> None, out |-> <<>>, ops |-> <<"reset_input_buffer">>]
    ELSE IF x.io = "write_err"
    THEN [ret |-> None, out |-> <<>>, ops |-> <<"reset_input_buffer", "write">>]
    ELSE IF x.io = "read_err"
    THEN [ret |-> None, out |-> <<Frame(cmd)>>,
          ops |-> <<"reset_input_buffer", "write", "readline">>]
    ELSE [ret |-> x.line, out |-> <<Frame(cmd)>>,
          ops |-> <<"reset_input_buffer", "write", "readline">>]

\* get_output_state()
get_output_state(v) == v > OutputThreshold

-----------------------------------------------------------------------------
(* Construction *)

\* load_or_create_presets() with no presets.json
DefaultPresets ==
    ("USB Power Supply" :> [voltage |-> 50, current |-> 30] @@
     "Lead Acid Battery" :> [voltage |-> 137, current |-> 30])

\* the order in which self.presets.items() yields the default presets
DefaultOrder == <<"USB Power Supply", "Lead Acid Battery">>

\* load_reset_settings() with no reset_settings.json
DefaultModes == ("timer" :> RESET_OFF @@ "energy" :> RESET_OFF @@ "all" :> NO_RESET)

\* mutant of root_after: the callback is scheduled twice
root_after_Twice(timers) == timers + 2

\* self.root.after(1000, self.periodic_refresh): one more timer is pending
root_after(timers) == timers + 1

\* DC310SGUI.__init__ with load_reset_settings() returning modes
InitWith(modes) ==
    /\ serial_conn = None
    /\ leaked = 0
    /\ voltage_history = <<>>
    /\ current_history = <<>>
    /\ output_voltage = 0
    /\ output_power = 0
    /\ preset_click_stage = 0
    /\ elapsed_seconds = 0
    /\ energy_ws = 0
    /\ auto_reset_mode = modes
    /\ presets = DefaultPresets
    /\ preset_listbox =
         [k \in 1..Len(DefaultOrder) |->
            Display(DefaultOrder[k], DefaultPresets[DefaultOrder[k]].voltage,
                    DefaultPresets[DefaultOrder[k]].current)]
    /\ preset_display_map =
         [d \in {Display(n, DefaultPresets[n].voltage, DefaultPresets[n].current) :
                   n \in DOMAIN DefaultPresets} |->
            CHOOSE n \in DOMAIN DefaultPresets :
              d = Display(n, DefaultPresets[n].voltage, DefaultPresets[n].current)]
    /\ voltage_entry = ""
    /\ current_entry = ""
    /\ meas_voltage = "---"
    /\ meas_current = "---"
    /\ status_indicator = "red"
    /\ buttons = "disabled"
    /\ load_preset_button = "lightblue"
    /\ pending = root_after(0)
    /\ wire = <<>>
    /\ calls = <<>>
    /\ last = "__init__"
    /\ nticks = 0

\* a first run: no reset_settings.json, the defaults are written and used
InitFirstRun == InitWith(DefaultModes)

\* any run: reset_settings.json holds whatever mode an earlier run saved per key
Init == \E modes \in [Keys -> Modes] : InitWith(modes)

telemetry == <<voltage_history, current_history, output_voltage, output_power,
               elapsed_seconds, energy_ws, meas_voltage, meas_current, nticks>>
presetvars == <<presets, preset_listbox, preset_display_map>>
gate == <<preset_click_stage, load_preset_button>>
entries == <<voltage_entry, current_entry>>
session == <<serial_conn, leaked, status_indicator, buttons>>

-----------------------------------------------------------------------------
(* Session: connect / disconnect *)

\* connect(): serial.Serial(...) raises (opens = FALSE) or returns a new open
\* object.  The object self.serial_conn referred to before is not closed by
\* connect(); once unreferenced it is closed only if the runtime finalizes it
\* (finalized), otherwise it stays open.  xv, xc: how the two exchanges of
\* load_initial_settings() go.
connect(opens, finalized, xv, xc) ==
    /\ last' = "connect"
    /\ UNCHANGED <<telemetry, presetvars, gate, auto_reset_mode, pending>>
    /\ IF ~opens
       THEN /\ status_indicator' = "red"
            /\ wire' = <<>>
            /\ calls' = <<>>
            /\ UNCHANGED <<serial_conn, leaked, buttons, entries>>
       ELSE LET drops == serial_conn # None /\ ~finalized
                v == send_command(Serial, "voltage?", xv)
                c == send_command(Serial, "current?", xc)
            IN /\ drops => leaked < MaxLeaked
               /\ leaked' = IF drops THEN leaked + 1 ELSE leaked
               /\ serial_conn' = Serial
               /\ buttons' = "normal"
               /\ status_indicator' = "green"
               /\ calls' = <<"voltage?", "current?">>
               /\ wire' = v.out \o c.out
               /\ voltage_entry' = IF Truthy(v.ret) THEN v.ret ELSE voltage_entry
               /\ current_entry' = IF Truthy(c.ret) THEN c.ret ELSE current_entry

\* mutant of disconnect: the held connection is neither closed nor dropped
disconnect_KeepsHandle ==
    /\ last' = "disconnect"
    /\ buttons' = "disabled"
    /\ status_indicator' = "red"
    /\ wire' = <<>>
    /\ calls' = <<>>
    /\ UNCHANGED <<serial_conn, leaked, telemetry, presetvars, gate, entries,
                   auto_reset_mode, pending>>

\* mutant of disconnect: disconnecting also cancels an armed confirmation
disconnect_ClearsGate ==
    /\ last' = "disconnect"
    /\ serial_conn' = None
    /\ buttons' = "disabled"
    /\ status_indicator' = "red"
    /\ preset_click_stage' = 0
    /\ load_preset_button' = "lightblue"
    /\ wire' = <<>>
    /\ calls' = <<>>
    /\ UNCHANGED <<leaked, telemetry, presetvars, entries, auto_reset_mode, pending>>

\* mutant of disconnect: the stored output voltage is cleared with the session
disconnect_ZeroesOutput ==
    /\ last' = "disconnect"
    /\ serial_conn' = None
    /\ buttons' = "disabled"
    /\ status_indicator' = "red"
    /\ output_voltage' = 0
    /\ wire' = <<>>
    /\ calls' = <<>>
    /\ UNCHANGED <<leaked, voltage_history, current_history, output_power,
                   elapsed_seconds, energy_ws, meas_voltage, meas_current, nticks,
                   presetvars, gate, entries, auto_reset_mode, pending>>

\* disconnect()
disconnect ==
    /\ last' = "disconnect"
    /\ serial_conn' = None
    /\ buttons' = "disabled"
    /\ status_indicator' = "red"
    /\ wire' = <<>>
    /\ calls' = <<>>
    /\ UNCHANGED <<leaked, telemetry, presetvars, gate, entries, auto_reset_mode, pending>>

-----
(* Setpoints and output *)

\* the user edits the "Set Voltage" entry
voltage_entry_input(t) ==
    /\ voltage_entry' = t
    /\ last' = "voltage_entry"
    /\ wire' = <<>>
    /\ calls' = <<>>
    /\ UNCHANGED <<session, telemetry, presetvars, gate, current_entry,
                   auto_reset_mode, pending>>

\* the user edits the "Set Current" entry
current_entry_input(t) ==
    /\ current_entry' = t
    /\ last' = "current_entry"
    /\ wire' = <<>>
    /\ calls' = <<>>
    /\ UNCHANGED <<session, telemetry, presetvars, gate, voltage_entry,
                   auto_reset_mode, pending>>

\* f"voltage {text}" and f"current {text}"
VoltageCmd(text) == "voltage " \o text
CurrentCmd(text) == "current " \o text

\* set_output(state), from the Output ON / Output OFF buttons
set_output(state, x) ==
    /\ buttons = "normal"
    /\ last' = "set_output"
    /\ calls' = <<"output " \o state>>
    /\ wire' = send_command(serial_conn, "output " \o state, x).out
    /\ UNCHANGED <<session, telemetry, presetvars, gate, entries, auto_reset_mode,
                   pending>>

\* set_voltage(), from the Set button
set_voltage(x) ==
    /\ last' = "set_voltage"
    /\ calls' = <<VoltageCmd(voltage_entry)>>
    /\ wire' = send_command(serial_conn, VoltageCmd(voltage_entry), x).out
    /\ UNCHANGED <<session, telemetry, presetvars, gate, entries, auto_reset_mode,
                   pending>>

\* set_current(), from the Set button
set_current(x) ==
    /\ last' = "set_current"
    /\ calls' = <<CurrentCmd(current_entry)>>
    /\ wire' = send_command(serial_conn, CurrentCmd(current_entry), x).out
    /\ UNCHANGED <<session, telemetry, presetvars, gate, entries, auto_reset_mode,
                   pending>>

-----------------------------------------------------------------------------
(* Presets *)

\* the preset the listbox row sel stands for: self.presets.get(
\* self.preset_display_map.get(display, "")), None when there is none
SelectedName(sel) ==
    IF sel = 0 THEN None
    ELSE IF preset_listbox[sel] \notin DOMAIN preset_display_map THEN None
    ELSE IF preset_display_map[preset_listbox[sel]] \notin DOMAIN presets THEN None
    ELSE preset_display_map[preset_listbox[sel]]

\* mutant of NeedsConfirm: the stage is not consulted
NeedsConfirm_IgnoresStage(active, stage) == active

\* the first click on LOAD while the output is live only arms the confirmation
NeedsConfirm(active, stage) == active /\ stage = 0

\* load_selected_preset(); sel = 0 is an empty curselection()
load_selected_preset(sel, xv, xc) ==
    /\ last' = "load_selected_preset"
    /\ UNCHANGED <<session, telemetry, presetvars, auto_reset_mode, pending>>
    /\ IF SelectedName(sel) = None
       THEN /\ wire' = <<>>
            /\ calls' = <<>>
            /\ UNCHANGED <<gate, entries>>
       ELSE IF NeedsConfirm(get_output_state(output_voltage), preset_click_stage)
       THEN /\ load_preset_button' = "red"
            /\ preset_click_stage' = 1
            /\ wire' = <<>>
            /\ calls' = <<>>
            /\ UNCHANGED entries
       ELSE LET preset == presets[SelectedName(sel)]
                vtext == StrOf[preset.voltage]
                ctext == StrOf[preset.current]
            IN /\ voltage_entry' = vtext
               /\ current_entry' = ctext
               /\ calls' = <<VoltageCmd(vtext), CurrentCmd(ctext)>>
               /\ wire' = send_command(serial_conn, VoltageCmd(vtext), xv).out
                          \o send_command(serial_conn, CurrentCmd(ctext), xc).out
               /\ load_preset_button' = "lightblue"
               /\ preset_click_stage' = 0

\* save_current_as_preset(); name is what the "Preset Name" dialog returned
save_current_as_preset(name) ==
    /\ Len(preset_listbox) < Len(DefaultOrder) + MaxSaves
    /\ last' = "save_current_as_preset"
    /\ wire' = <<>>
    /\ calls' = <<>>
    /\ UNCHANGED <<session, telemetry, gate, entries, auto_reset_mode, pending>>
    /\ IF ~Truthy(name) \/ ~Parses(voltage_entry) \/ ~Parses(current_entry)
       THEN UNCHANGED presetvars
       ELSE LET voltage == FloatOf[voltage_entry]
                current == FloatOf[current_entry]
                display == Display(name, voltage, current)
            IN /\ presets' = [n \in DOMAIN presets \cup {name} |->
                               IF n = name
                               THEN [voltage |-> voltage, current |-> current]
                               ELSE presets[n]]
               /\ preset_display_map' =
                    [d \in DOMAIN preset_display_map \cup {display} |->
                       IF d = display THEN name ELSE preset_display_map[d]]
               /\ preset_listbox' = Append(preset_listbox, display)

-----------------------------------------------------------------------------
(* Accumulators and auto-reset policy *)

\* mutant of ResetTimer: the timer reset clears the energy too
ResetTimer_Both(acc) == [elapsed |-> 0, energy |-> 0]

\* reset_timer(), reset_energy(), reset_all() on the pair of accumulators
ResetTimer(acc) == [acc EXCEPT !.elapsed = 0]
ResetEnergy(acc) == [acc EXCEPT !.energy = 0]
ResetAll(acc) == ResetEnergy(ResetTimer(acc))

\* mutant of AutoReset: the policy never resets anything
AutoReset_Never(modes, when, acc) == acc

\* the three "if self.auto_reset_mode[...] == when" lines, in source order
AutoReset(modes, when, acc) ==
    LET a1 == IF modes["all"] = when THEN ResetAll(acc) ELSE acc
        a2 == IF modes["timer"] = when THEN ResetTimer(a1) ELSE a1
    IN IF modes["energy"] = when THEN ResetEnergy(a2) ELSE a2

\* mutant of Accumulate: the "on" resets run before the increments
Accumulate_ResetFirst(state, modes, acc, power) ==
    IF state
    THEN [elapsed |-> AutoReset(modes, RESET_ON, acc).elapsed + 1,
          energy |-> AutoReset(modes, RESET_ON, acc).energy + power]
    ELSE AutoReset(modes, RESET_OFF, acc)

\* mutant of Accumulate: the energy is assigned, not accumulated
Accumulate_Overwrite(state, modes, acc, power) ==
    IF state
    THEN AutoReset(modes, RESET_ON, [elapsed |-> acc.elapsed + 1, energy |-> power])
    ELSE AutoReset(modes, RESET_OFF, acc)

\* the "if state: ... else: ..." block of refresh_measurements()
Accumulate(state, modes, acc, power) ==
    IF state
    THEN AutoReset(modes, RESET_ON,
                   [elapsed |-> acc.elapsed + 1, energy |-> acc.energy + power])
    ELSE AutoReset(modes, RESET_OFF, acc)

\* the pair of accumulators the reset functions work on
Accumulators == [elapsed |-> elapsed_seconds, energy |-> energy_ws]

\* a Reset Timer / Reset Energy / Reset All button leaving the accumulators as acc
manual_reset(name, acc) ==
    /\ elapsed_seconds' = acc.elapsed
    /\ energy_ws' = acc.energy
    /\ last' = name
    /\ wire' = <<>>
    /\ calls' = <<>>
    /\ UNCHANGED <<session, voltage_history, current_history, output_voltage,
                   output_power, meas_voltage, meas_current, nticks, presetvars, gate,
                   entries, auto_reset_mode, pending>>

reset_timer == manual_reset("reset_timer", ResetTimer(Accumulators))
reset_energy == manual_reset("reset_energy", ResetEnergy(Accumulators))
reset_all == manual_reset("reset_all", ResetAll(Accumulators))

\* set_reset_mode(key, mode), from the three comboboxes
set_reset_mode(key, mode) ==
    /\ auto_reset_mode' = [auto_reset_mode EXCEPT ![key] = mode]
    /\ last' = "set_reset_mode"
    /\ wire' = <<>>
    /\ calls' = <<>>
    /\ UNCHANGED <<session, telemetry, presetvars, gate, entries, pending>>

-----------------------------------------------------------------------------
(* The measurement tick *)

\* the value a reply contributes: float(s), or 0 from the except branch
SampleOf(s) == IF Parses(s) THEN FloatOf[s] ELSE 0

\* mutant of LabelOf: the except branch shows a zero reading
LabelOf_Zero(s) == IF Parses(s) THEN Fmt3[FloatOf[s]] ELSE "0.000"

\* the label text: f"{v:.3f}", or "---" from the except branch
LabelOf(s) == IF Parses(s) THEN Fmt3[FloatOf[s]] ELSE "---"

\* "self.output_voltage * i if v_str and i_str else 0" reads the local i, which
\* is bound only when float(i_str) returned: otherwise the read raises
\* UnboundLocalError, which nothing in refresh_measurements() catches
PowerRaises(v_str, i_str) == Truthy(v_str) /\ Truthy(i_str) /\ ~Parses(i_str)

\* power = self.output_voltage * i if v_str and i_str else 0
PowerOf(v_str, i_str) ==
    IF Truthy(v_str) /\ Truthy(i_str) THEN SampleOf(v_str) * FloatOf[i_str] ELSE 0

\* periodic_refresh(): a pending timer fires (and is gone); xv, xi: how the two
\* exchanges of refresh_measurements() go.  The handler re-arms the timer in its
\* last statement, which is not reached when refresh_measurements() raises.
periodic_refresh(xv, xi) ==
    /\ pending >= 1
    /\ last' = "periodic_refresh"
    /\ UNCHANGED <<session, presetvars, gate, entries, auto_reset_mode>>
    /\ IF ~IsOpen(serial_conn)
       THEN /\ wire' = <<>>
            /\ calls' = <<>>
            /\ pending' = root_after(pending - 1)
            /\ UNCHANGED telemetry
       ELSE /\ nticks < MaxTicks
            /\ nticks' = nticks + 1
            /\ LET v == send_command(serial_conn, "measure:voltage?", xv)
                   i == send_command(serial_conn, "measure:current?", xi)
                   acc == Accumulate(get_output_state(SampleOf(v.ret)), auto_reset_mode,
                                     Accumulators, PowerOf(v.ret, i.ret))
               IN /\ calls' = <<"measure:voltage?", "measure:current?">>
                  /\ wire' = v.out \o i.out
                  /\ output_voltage' = SampleOf(v.ret)
                  /\ meas_voltage' = LabelOf(v.ret)
                  /\ voltage_history' = DequeAppend(voltage_history, SampleOf(v.ret))
                  /\ meas_current' = LabelOf(i.ret)
                  /\ current_history' = DequeAppend(current_history, SampleOf(i.ret))
                  /\ IF PowerRaises(v.ret, i.ret)
                     THEN /\ pending' = pending - 1
                          /\ UNCHANGED <<output_power, elapsed_seconds, energy_ws>>
                     ELSE /\ output_power' = PowerOf(v.ret, i.ret)
                          /\ elapsed_seconds' = acc.elapsed
                          /\ energy_ws' = acc.energy
                          /\ pending' = root_after(pending - 1)

-----------------------------------------------------------------------------------------------------------------------------------------------------
(* Next-state relations.  The handlers touch disjoint parts of the state     *)
(* (telemetry and policy; presets, gate and entries), so each specification *)
(* explores the handlers of one part in full, with the session and the tick *)
(* that every part depends on.                                              *)

\* Telemetry: session, ticks with every kind of reply, policy changes and
\* manual resets.
Next ==
    \/ \E opens \in BOOLEAN, x \in Outcomes({""}, {}) : connect(opens, TRUE, x, x)
    \/ disconnect
    \/ \E xv \in Outcomes(VoltageLines, {"read_err"}),
          xi \in Outcomes(CurrentLines, {"read_err"}) : periodic_refresh(xv, xi)
    \/ reset_timer
    \/ reset_energy
    \/ reset_all
    \/ \E key \in Keys, mode \in Modes : set_reset_mode(key, mode)

Spec == Init /\ [][Next]_vars

\* Ticks alone, under each saved policy: no manual reset, no policy change.
NextTicks ==
    \/ \E x \in Outcomes({""}, {}) : connect(TRUE, TRUE, x, x)
    \/ disconnect
    \/ \E xv \in Outcomes(VoltageLines, {"read_err"}),
          xi \in Outcomes(CurrentLines \cup {"2.0"}, {"read_err"}) :
         periodic_refresh(xv, xi)

SpecTicks == Init /\ [][NextTicks]_vars

\* Session: every way connect() and the exchanges can go.
NextSession ==
    \/ \E opens, finalized \in BOOLEAN, xv, xc \in Outcomes(SetpointLines, IOErrors) :
         connect(opens, finalized, xv, xc)
    \/ disconnect
    \/ \E x \in Outcomes({"5.0"}, {}) : periodic_refresh(x, x)
    \/ \E state \in {"0", "1"}, x \in Outcomes({""}, IOErrors) : set_output(state, x)

SpecSession == InitFirstRun /\ [][NextSession]_vars

\* Presets, gate and setpoints, with ticks that switch the inferred output state.
NextPreset ==
    \/ \E x \in Outcomes(SetpointLines, {}) : connect(TRUE, TRUE, x, x)
    \/ disconnect
    \/ \E xv \in Outcomes({"0.2", "5.0"}, {}), xi \in Outcomes({"1.0"}, {}) :
         periodic_refresh(xv, xi)
    \/ \E t \in EntryTexts : voltage_entry_input(t)
    \/ \E t \in EntryTexts : current_entry_input(t)
    \/ \E x \in Outcomes({""}, {"write_err"}) : set_voltage(x)
    \/ \E x \in Outcomes({""}, {"write_err"}) : set_current(x)
    \/ \E sel \in 0..Len(preset_listbox), xv, xc \in Outcomes({""}, {"write_err"}) :
         load_selected_preset(sel, xv, xc)

SpecPreset == InitFirstRun /\ [][NextPreset]_vars

\* A long-running session: the state after WarmTicks connected ticks of a first
\* run, the first measuring 5.0 V / 1.0 A and every later one timing out (empty
\* replies), so both deques are about to overflow.
InitWarm ==
    /\ serial_conn = Serial
    /\ leaked = 0
    /\ voltage_history = [k \in 1..WarmTicks |-> IF k = 1 THEN 50 ELSE 0]
    /\ current_history = [k \in 1..WarmTicks |-> IF k = 1 THEN 10 ELSE 0]
    /\ output_voltage = 0
    /\ output_power = 0
    /\ preset_click_stage = 0
    /\ elapsed_seconds = 0
    /\ energy_ws = 0
    /\ auto_reset_mode = DefaultModes
    /\ presets = DefaultPresets
    /\ preset_listbox =
         [k \in 1..Len(DefaultOrder) |->
            Display(DefaultOrder[k], DefaultPresets[DefaultOrder[k]].voltage,
                    DefaultPresets[DefaultOrder[k]].current)]
    /\ preset_display_map =
         [d \in {Display(n, DefaultPresets[n].voltage, DefaultPresets[n].current) :
                   n \in DOMAIN DefaultPresets} |->
            CHOOSE n \in DOMAIN DefaultPresets :
              d = Display(n, DefaultPresets[n].voltage, DefaultPresets[n].current)]
    /\ voltage_entry = ""
    /\ current_entry = ""
    /\ meas_voltage = "---"
    /\ meas_current = "---"
    /\ status_indicator = "green"
    /\ buttons = "normal"
    /\ load_preset_button = "lightblue"
    /\ pending = 1
    /\ wire = <<Frame("measure:voltage?"), Frame("measure:current?")>>
    /\ calls = <<"measure:voltage?", "measure:current?">>
    /\ last = "periodic_refresh"
    /\ nticks = 0

NextHistory ==
    \/ \E x \in Outcomes({""}, {}) : connect(TRUE, TRUE, x, x)
    \/ disconnect
    \/ \E xv \in Outcomes(VoltageLines, {"read_err"}),
          xi \in Outcomes(CurrentLines, {"read_err"}) : periodic_refresh(xv, xi)

SpecHistory == InitWarm /\ [][NextHistory]_vars

\* Accumulators under each saved policy: ticks, connected or not, with an
\* active or inactive output and a current reply that is or is not a number,
\* and the three reset buttons.
NextResets ==
    \/ \E x \in Outcomes({""}, {}) : connect(TRUE, TRUE, x, x)
    \/ disconnect
    \/ \E xv \in Outcomes({"0.2", "5.0"}, {}), xi \in Outcomes({"abc", "1.0"}, {}) :
         periodic_refresh(xv, xi)
    \/ reset_timer
    \/ reset_energy
    \/ reset_all

SpecResets == Init /\ [][NextResets]_vars

\* Ticks of a first run with the replies at the edges of what float() accepts:
\* a voltage at the output threshold, a signed current, text that is no number.
NextReplies ==
    \/ \E x \in Outcomes({""}, {}) : connect(TRUE, TRUE, x, x)
    \/ disconnect
    \/ \E xv \in Outcomes({"abc", "0.2", "0.5", "5.0"}, {}),
          xi \in Outcomes({"", "abc", "1.0", "-1.0"}, {"read_err"}) :
         periodic_refresh(xv, xi)

SpecReplies == InitFirstRun /\ [][NextReplies]_vars

\* A live session: the state of a first run after connect (both setpoint
\* queries timing out) and one tick that measured 5.0 V / 1.0 A, so the output
\* counts as active.
InitLive ==
    /\ serial_conn = Serial
    /\ leaked = 0
    /\ voltage_history = <<50>>
    /\ current_history = <<10>>
    /\ output_voltage = 50
    /\ output_power = 500
    /\ preset_click_stage = 0
    /\ elapsed_seconds = 1
    /\ energy_ws = 500
    /\ auto_reset_mode = DefaultModes
    /\ presets = DefaultPresets
    /\ preset_listbox =
         [k \in 1..Len(DefaultOrder) |->
            Display(DefaultOrder[k], DefaultPresets[DefaultOrder[k]].voltage,
                    DefaultPresets[DefaultOrder[k]].current)]
    /\ preset_display_map =
         [d \in {Display(n, DefaultPresets[n].voltage, DefaultPresets[n].current) :
                   n \in DOMAIN DefaultPresets} |->
            CHOOSE n \in DOMAIN DefaultPresets :
              d = Display(n, DefaultPresets[n].voltage, DefaultPresets[n].current)]
    /\ voltage_entry = ""
    /\ current_entry = ""
    /\ meas_voltage = "5.000"
    /\ meas_current = "1.000"
    /\ status_indicator = "green"
    /\ buttons = "normal"
    /\ load_preset_button = "lightblue"
    /\ pending = 1
    /\ wire = <<Frame("measure:voltage?"), Frame("measure:current?")>>
    /\ calls = <<"measure:voltage?", "measure:current?">>
    /\ last = "periodic_refresh"
    /\ nticks = 0

\* The confirmation gate among every other handler: session, ticks that switch
\* the output off and on, output and setpoint buttons, reset buttons.
NextGate ==
    \/ \E opens \in BOOLEAN, x \in Outcomes({""}, {}) : connect(opens, TRUE, x, x)
    \/ disconnect
    \/ \E xv \in Outcomes({"0.2", "5.0"}, {}), xi \in Outcomes({"1.0"}, {}) :
         periodic_refresh(xv, xi)
    \/ \E state \in {"0", "1"}, x \in Outcomes({""}, {}) : set_output(state, x)
    \/ \E t \in {"5"} : voltage_entry_input(t)
    \/ \E x \in Outcomes({""}, {}) : set_voltage(x)
    \/ \E x \in Outcomes({""}, {}) : set_current(x)
    \/ reset_timer
    \/ reset_energy
    \/ reset_all
    \/ \E sel \in 0..Len(preset_listbox), x \in Outcomes({""}, {}) :
         load_selected_preset(sel, x, x)

SpecGate == InitLive /\ [][NextGate]_vars

\* Saving presets: the user types setpoints (a number, a signed number, text
\* that is no number), saves them under a new or an existing name or cancels
\* the dialog, and loads a row of the list.
NextSave ==
    \/ \E t \in EntryTexts \cup {"-1.0"} : voltage_entry_input(t)
    \/ \E t \in EntryTexts \cup {"-1.0"} : current_entry_input(t)
    \/ \E name \in DialogNames : save_current_as_preset(name)
    \/ \E sel \in 0..Len(preset_listbox), x \in Outcomes({""}, {}) :
         load_selected_preset(sel, x, x)

SpecSave == InitFirstRun /\ [][NextSave]_vars

\* The command exchange seen from its callers: every handler that calls
\* send_command, with every reply and every failing step, connected or not.
NextProtocol ==
    \/ \E opens \in BOOLEAN, xv, xc \in Outcomes(ReplyLines, IOErrors) :
         connect(opens, TRUE, xv, xc)
    \/ disconnect
    \/ \E x \in Outcomes({"5.0"}, {}) : periodic_refresh(x, x)
    \/ \E t \in {"5"} : voltage_entry_input(t)
    \/ \E t \in {"5"} : current_entry_input(t)
    \/ \E x \in Outcomes(ReplyLines, IOErrors) : set_voltage(x)
    \/ \E x \in Outcomes(ReplyLines, IOErrors) : set_current(x)
    \/ \E state \in {"0", "1"}, x \in Outcomes(ReplyLines, IOErrors) : set_output(state, x)

SpecProtocol == InitFirstRun /\ [][NextProtocol]_vars

-----------------------------------------------------------------------------
(* Properties *)

\* this step is a tick that ran refresh_measurements()
ConnectedTick == nticks' = nticks + 1

\* refresh_measurements() raised in this step, so the timer was not re-armed
TickRaised == pending' # pending

\* new is old after one append of a deque of capacity cap: the oldest sample
\* goes once old is full, the others keep their order
IsFifoAppend(old, new, cap) ==
    /\ Len(new) = IF Len(old) < cap THEN Len(old) + 1 ELSE cap
    /\ \A k \in 1..(Len(new) - 1) : new[k] = old[k + Len(old) + 1 - Len(new)]

\* sum over k of vs[k] * cs[k]
RECURSIVE SumProducts(_, _)
SumProducts(vs, cs) ==
    IF vs = <<>> THEN 0 ELSE Head(vs) * Head(cs) + SumProducts(Tail(vs), Tail(cs))

\* every tick so far measured a voltage above the threshold and a current
AllActiveMeasured ==
    \A k \in 1..Len(voltage_history) :
        voltage_history[k] > 5 /\ current_history[k] # 0

\* C1: with the output live and the gate Idle a LOAD of a preset sends nothing,
\* leaves both setpoint entries alone and arms the gate; the gate stays armed
\* until the next LOAD of a preset, which writes that preset's values into the
\* entries, passes "voltage ..." then "current ..." to send_command (both reach
\* the transport when it is open and the exchanges succeed) and returns the gate
\* to Idle, whatever the output state is by then.
C1_PresetConfirmation ==
    [][ /\ last' = "load_selected_preset" =>
             \A sel \in 1..Len(preset_listbox), xv, xc \in Outcomes({""}, IOErrors) :
                 (load_selected_preset(sel, xv, xc) /\ SelectedName(sel) # None) =>
                     IF get_output_state(output_voltage) /\ preset_click_stage = 0
                     THEN /\ wire' = <<>>
                          /\ calls' = <<>>
                          /\ voltage_entry' = voltage_entry
                          /\ current_entry' = current_entry
                          /\ preset_click_stage' = 1
                     ELSE /\ Parses(voltage_entry')
                          /\ FloatOf[voltage_entry'] = presets[SelectedName(sel)].voltage
                          /\ Parses(current_entry')
                          /\ FloatOf[current_entry'] = presets[SelectedName(sel)].current
                          /\ calls' = <<"voltage " \o voltage_entry',
                                        "current " \o current_entry'>>
                          /\ (IsOpen(serial_conn) /\ xv.io = "ok" /\ xc.io = "ok") =>
                                 wire' = <<"voltage " \o voltage_entry' \o "\n",
                                           "current " \o current_entry' \o "\n">>
                          /\ preset_click_stage' = 0
        /\ (preset_click_stage = 1 /\ last' # "load_selected_preset") =>
               preset_click_stage' = 1
      ]_vars

\* a second LOAD has applied the Lead Acid preset on a live output
C1_Witness ==
    /\ last = "load_selected_preset"
    /\ preset_click_stage = 0
    /\ get_output_state(output_voltage)
    /\ voltage_entry = "13.7"
    /\ current_entry = "3.0"
    /\ wire = <<"voltage 13.7\n", "current 3.0\n">>

\* C2: no reply sequence stops the periodic loop: after every handler a tick
\* is scheduled.
C2_TickAlwaysRearmed == pending = 1

\* C3: set_voltage / set_current write nothing to the transport when the entry
\* text does not parse as a number.
C3_InvalidSetpointNeverSent ==
    /\ (last = "set_voltage" /\ ~Parses(voltage_entry)) => wire = <<>>
    /\ (last = "set_current" /\ ~Parses(current_entry)) => wire = <<>>

C5_Original ==
    AllActiveMeasured => energy_ws = SumProducts(voltage_history, current_history)

\* C5 amended: the same, provided neither the "energy" nor the "all" mode is
\* "reset on output on"; with either of them energy_ws is 0 after every such tick.
\* (SpecTicks: ticks only, no manual reset, the modes fixed during the run.)
C5_EnergyIsSum ==
    AllActiveMeasured =>
        IF auto_reset_mode["energy"] = RESET_ON \/ auto_reset_mode["all"] = RESET_ON
        THEN energy_ws = 0
        ELSE energy_ws = SumProducts(voltage_history, current_history)

\* 5.0 V * 1.0 A and then 5.0 V * 2.0 A have been integrated
C5_Witness ==
    /\ voltage_history = <<50, 50>>
    /\ current_history = <<10, 20>>
    /\ last = "periodic_refresh"
    /\ energy_ws = 1500

\* C6: with "all" = "reset on output off", the first inactive tick after an
\* active one ends with elapsed_seconds = 0 and energy_ws = 0.
C6_AllResetOnOutputOff ==
    [][(/\ ConnectedTick
        /\ auto_reset_mode["all"] = RESET_OFF
        /\ get_output_state(output_voltage)
        /\ ~get_output_state(output_voltage'))
          => (elapsed_seconds' = 0 /\ energy_ws' = 0)
      ]_vars

\* C7: both histories hold at most 100 samples, and every tick appends one
\* sample to each, evicting the oldest once 100 are held and keeping the others
\* in insertion order.
C7_BoundedFifo ==
    /\ [](Len(voltage_history) <= 100 /\ Len(current_history) <= 100)
    /\ [][ConnectedTick =>
             /\ IsFifoAppend(voltage_history, voltage_history', 100)
             /\ voltage_history'[Len(voltage_history')] = output_voltage'
             /\ IsFifoAppend(current_history, current_history', 100)
         ]_vars

\* the full voltage history has lost its oldest sample (5.0 V) to a new one
C7_Witness ==
    /\ nticks = 2
    /\ Len(voltage_history) = 100
    /\ voltage_history[1] = 0
    /\ voltage_history[100] = 50
    /\ Len(current_history) = 100

\* C8: on a connected tick whose measure:voltage? reply is absent, empty or not
\* a number, exactly one sample 0 is appended to the voltage history, the stored
\* output voltage becomes 0, the label shows the placeholder, and the handler
\* goes on to the current step.
C8_VoltageReplyInvalid ==
    [][ConnectedTick =>
          \A xv \in Outcomes(VoltageLines, IOErrors), xi \in Outcomes(CurrentLines, IOErrors) :
              (/\ periodic_refresh(xv, xi)
               /\ xv.io # "ok" \/ xv.line \in {"", "abc"})
                 => /\ voltage_history' = Append(voltage_history, 0)
                    /\ output_voltage' = 0
                    /\ meas_voltage' = "---"
                    /\ Len(current_history') = Len(current_history) + 1
      ]_vars

\* a good voltage sample was followed by an invalid one
C8_Witness ==
    /\ last = "periodic_refresh"
    /\ voltage_history = <<50, 0>>
    /\ meas_voltage = "---"
    /\ output_voltage = 0

\* C9: after a connect attempt that failed to open the transport, the session
\* holds no transport.
C9_FailedConnectDisconnects ==
    (last = "connect" /\ status_indicator = "red") => serial_conn = None

\* C10: every serial.Serial that was opened and is not the one the session
\* holds has been closed.
C10_OnlyHeldHandleOpen == leaked = 0

\* C11: disconnect while Disconnected leaves the session, the accumulators, the
\* histories and the gate stage unchanged; disconnect while Connected closes the
\* held connection (it is not left open) and leaves the session Disconnected;
\* and in the state a disconnect has left, another disconnect changes nothing.
C11_DisconnectIdempotent ==
    /\ [][disconnect =>
             IF serial_conn = None
             THEN UNCHANGED <<session, elapsed_seconds, energy_ws, voltage_history,
                              current_history, preset_click_stage>>
             ELSE /\ serial_conn' = None
                  /\ leaked' = leaked
                  /\ buttons' = "disabled"
                  /\ status_indicator' = "red"
                  /\ UNCHANGED <<elapsed_seconds, energy_ws, voltage_history,
                                 current_history, preset_click_stage>>
         ]_vars
    /\ [](last = "disconnect" => ENABLED (disconnect /\ UNCHANGED vars))

\* a session that had synced its setpoint and measured once was disconnected
C11_Witness ==
    /\ last = "disconnect"
    /\ serial_conn = None
    /\ status_indicator = "red"
    /\ voltage_entry = "12.0"
    /\ nticks = 1

\* C12: a tick that fires while no connection is held passes no command to
\* send_command, writes nothing to the transport, leaves elapsed_seconds,
\* energy_ws, both histories and the stored measurement unchanged and only
\* re-arms the one timer; so a tick that changes an accumulator or a history
\* is a tick of a connected session.
C12_DisconnectedTickSkipped ==
    [][last' = "periodic_refresh" =>
          /\ serial_conn = None =>
                 /\ wire' = <<>>
                 /\ calls' = <<>>
                 /\ pending' = pending
                 /\ UNCHANGED <<elapsed_seconds, energy_ws, voltage_history,
                                current_history, output_voltage, output_power>>
          /\ <<elapsed_seconds, energy_ws, voltage_history, current_history>>'
                 # <<elapsed_seconds, energy_ws, voltage_history, current_history>>
                 => serial_conn = Serial
      ]_vars

\* a tick fired after the session that had counted one second was disconnected
C12_Witness ==
    /\ last = "periodic_refresh"
    /\ serial_conn = None
    /\ wire = <<>>
    /\ elapsed_seconds = 1
    /\ Len(voltage_history) = 1

\* C13 as stated: send_command returns None with no transport method called when
\* no open connection is held, returns None when the flush, the write or the
\* read raises, and gives the caller "no data" (None or an empty reply) alike
\* for a read timeout, a malformed reply and a failed exchange.
C13_Original ==
    [][last' = "set_voltage" =>
       \A x \in Outcomes(ReplyLines, IOErrors) :
          set_voltage(x) =>
              LET r == send_command(serial_conn, VoltageCmd(voltage_entry), x)
              IN /\ serial_conn = None => (r.ret = None /\ r.ops = <<>> /\ r.out = <<>>)
                 /\ x.io \in IOErrors => r.ret = None
                 /\ (x.io \in IOErrors \/ ~Parses(x.line)) => ~Truthy(r.ret)
      ]_vars

\* C13 amended: send_command returns None with no transport method called when
\* no open connection is held, and returns None when the flush, the write or
\* the read raises; when the exchange succeeds it returns the stripped reply as
\* received: the empty string after a read timeout, and a malformed reply
\* unchanged.  So a caller can tell a malformed reply from a timeout or a failed
\* exchange: connect shows it in the setpoint entry, which a timeout or a failed
\* exchange leaves alone.
C13_SendCommandSilent ==
    [][ /\ last' = "set_voltage" =>
            \A x \in Outcomes(ReplyLines, IOErrors) :
              set_voltage(x) =>
                  LET r == send_command(serial_conn, VoltageCmd(voltage_entry), x)
                  IN /\ wire' = r.out
                     /\ serial_conn = None =>
                            (r.ret = None /\ r.ops = <<>> /\ r.out = <<>>)
                     /\ x.io \in IOErrors => r.ret = None
                     /\ (serial_conn = Serial /\ x.io = "ok") =>
                            /\ r.ret = x.line
                            /\ r.out = <<"voltage " \o voltage_entry \o "\n">>
        /\ last' = "connect" =>
            \A xv, xc \in Outcomes(ReplyLines, IOErrors) :
              connect(TRUE, TRUE, xv, xc) =>
                  voltage_entry' = IF xv.io = "ok" /\ xv.line # ""
                                   THEN xv.line ELSE voltage_entry
      ]_vars

\* connect got a malformed reply to voltage?, shown in the entry, and its
\* current? exchange failed before writing, leaving the typed current alone
C13_Witness ==
    /\ last = "connect"
    /\ serial_conn = Serial
    /\ voltage_entry = "ERR"
    /\ current_entry = "5"
    /\ wire = <<"voltage?\n">>

\* C14: in every reachable state elapsed_seconds is an integer >= 0 and
\* energy_ws is >= 0.
C14_AccumulatorsNonNegative == elapsed_seconds \in Nat /\ energy_ws >= 0

\* C15: on every connected tick that finds the output inactive, an accumulator
\* whose target's mode is "reset on output off" is 0 at the end of the tick, and
\* on every connected tick that finds the output active, an accumulator whose
\* target's mode is "reset on output on" is 0 at the end of the tick ("all"
\* targets both accumulators).
C15_LevelTriggered ==
    [][ConnectedTick =>
          LET when == IF get_output_state(output_voltage') THEN RESET_ON ELSE RESET_OFF
          IN /\ auto_reset_mode["timer"] = when => elapsed_seconds' = 0
             /\ auto_reset_mode["energy"] = when => energy_ws' = 0
             /\ auto_reset_mode["all"] = when => (elapsed_seconds' = 0 /\ energy_ws' = 0)
      ]_vars

\* C16: on a connected tick whose measure:current? reply is absent, empty or
\* not a number, 0 is appended to the current history and the tick completes
\* with power 0: an active output adds 1 to elapsed_seconds and 0 to energy_ws,
\* and the reset policy of the tick's output state is applied.
C16_CurrentReplyInvalid ==
    [][ConnectedTick =>
          \A xv \in Outcomes({"abc", "0.2", "0.5", "5.0"}, {}),
             xi \in Outcomes({"", "abc"}, {"read_err"}) :
              periodic_refresh(xv, xi) =>
                  LET active == get_output_state(output_voltage')
                      when == IF active THEN RESET_ON ELSE RESET_OFF
                      resets(key) == auto_reset_mode["all"] = when
                                     \/ auto_reset_mode[key] = when
                  IN /\ current_history' = Append(current_history, 0)
                     /\ pending' = 1
                     /\ output_power' = 0
                     /\ elapsed_seconds' =
                            IF resets("timer") THEN 0
                            ELSE IF active THEN elapsed_seconds + 1 ELSE elapsed_seconds
                     /\ energy_ws' = IF resets("energy") THEN 0 ELSE energy_ws
      ]_vars

\* C17: after every connected tick the output counts as active exactly when the
\* voltage measured on that tick is above 0.5 V: a reading of 0.5 or less, or a
\* reply that is no number (taken as 0), gives an inactive output; and a tick
\* measuring 0.2 V with the timer mode "reset on output off" ends with
\* elapsed_seconds = 0.
C17_OutputActiveThreshold ==
    [][ConnectedTick =>
          \A xv \in Outcomes({"abc", "0.2", "0.5", "5.0"}, {}),
             xi \in Outcomes({"", "abc", "1.0", "-1.0"}, {"read_err"}) :
              periodic_refresh(xv, xi) =>
                  /\ get_output_state(output_voltage') = (xv.line = "5.0")
                  /\ (xv.line = "0.2" /\ auto_reset_mode["timer"] = RESET_OFF)
                         => elapsed_seconds' = 0
      ]_vars

\* C18: never more than one periodic_refresh timer is pending; a tick consumes
\* the pending timer and schedules at most one, in the statement it returns
\* from, and no other handler (connect, disconnect, a reset, a policy change)
\* schedules or cancels one.
C18_SingleTimer ==
    /\ [](pending \in {0, 1})
    /\ [][last' # "periodic_refresh" => pending' = pending]_vars
    /\ [][last' = "periodic_refresh" => (pending = 1 /\ pending' <= 1)]_vars

\* the second connected tick has returned and exactly one timer is pending
C18_Witness ==
    /\ last = "periodic_refresh"
    /\ serial_conn = Serial
    /\ nticks = 2
    /\ pending = 1

\* C19: a timer reset sets elapsed_seconds to 0 and leaves energy_ws alone, an
\* energy reset sets energy_ws to 0 and leaves elapsed_seconds alone, an "all"
\* reset sets both to 0, whether a button or the policy of a tick fires it: at
\* the end of a tick an accumulator is 0 exactly when "all" or its own target
\* fires and otherwise holds what the tick counted.  No reset changes the
\* histories, the gate stage or the session.
C19_ResetTargets ==
    [][ /\ last' = "reset_timer" => (elapsed_seconds' = 0 /\ energy_ws' = energy_ws)
        /\ last' = "reset_energy" => (energy_ws' = 0 /\ elapsed_seconds' = elapsed_seconds)
        /\ last' = "reset_all" => (elapsed_seconds' = 0 /\ energy_ws' = 0)
        /\ last' \in {"reset_timer", "reset_energy", "reset_all"} =>
               UNCHANGED <<voltage_history, current_history, preset_click_stage,
                           serial_conn, status_indicator, buttons>>
        /\ (ConnectedTick /\ ~TickRaised) =>
               LET active == get_output_state(output_voltage')
                   when == IF active THEN RESET_ON ELSE RESET_OFF
                   fires(key) == auto_reset_mode[key] = when
                   counted == IF active THEN elapsed_seconds + 1 ELSE elapsed_seconds
                   integrated == IF active THEN energy_ws + output_power' ELSE energy_ws
               IN /\ elapsed_seconds' =
                        IF fires("all") \/ fires("timer") THEN 0 ELSE counted
                  /\ energy_ws' =
                        IF fires("all") \/ fires("energy") THEN 0 ELSE integrated
                  /\ UNCHANGED <<preset_click_stage, serial_conn, status_indicator,
                                 buttons>>
      ]_vars

\* Reset Timer was pressed after 5.0 V * 1.0 A had been integrated for a second
C19_Witness ==
    /\ last = "reset_timer"
    /\ elapsed_seconds = 0
    /\ energy_ws = 500

\* C20: a connect that opens the transport leaves the session Connected and,
\* within the same handler (no tick in between), passes "voltage?" then
\* "current?" to send_command; whatever the two exchanges do (a value, an empty
\* reply after a timeout, an error in any step), the session stays Connected, and
\* a setpoint entry changes only when its reply is non-empty, to that reply.
C20_ConnectSyncs ==
    [][last' = "connect" =>
          \A xv, xc \in Outcomes(ReplyLines, IOErrors) :
              connect(TRUE, TRUE, xv, xc) =>
                  /\ serial_conn' = Serial
                  /\ status_indicator' = "green"
                  /\ buttons' = "normal"
                  /\ calls' = <<"voltage?", "current?">>
                  /\ UNCHANGED <<nticks, voltage_history, current_history, pending>>
                  /\ voltage_entry' # voltage_entry =>
                         (xv.io = "ok" /\ xv.line # "" /\ voltage_entry' = xv.line)
                  /\ current_entry' # current_entry =>
                         (xc.io = "ok" /\ xc.line # "" /\ current_entry' = xc.line)
      ]_vars

\* connect read the voltage setpoint, and its current? query timed out, which
\* left the typed current alone and the session Connected
C20_Witness ==
    /\ last = "connect"
    /\ serial_conn = Serial
    /\ status_indicator = "green"
    /\ voltage_entry = "12.0"
    /\ current_entry = "5"
    /\ wire = <<"voltage?\n", "current?\n">>

\* C21: every stored preset has voltage > 0 and current > 0, whatever texts the
\* setpoint entries held when it was saved, and the presets hold one entry per
\* name.
C21_PresetsPositive ==
    \A n \in DOMAIN presets : presets[n].voltage > 0 /\ presets[n].current > 0

\* C22: only load_selected_preset changes the gate stage: ticks (whatever they
\* do to the output state), connect, disconnect, set_output, setpoint handlers
\* and resets leave it unchanged; the stage leaves AwaitingConfirm only in a
\* load that applies a preset; and with the stage AwaitingConfirm, however long
\* ago it was armed, one load of a preset on a live output applies it.
C22_GateOnlyByLoad ==
    [][ /\ last' # "load_selected_preset" => preset_click_stage' = preset_click_stage
        /\ (preset_click_stage = 1 /\ preset_click_stage' # 1) =>
               /\ last' = "load_selected_preset"
               /\ Len(calls') = 2
               /\ Parses(voltage_entry') /\ Parses(current_entry')
        /\ (/\ last' = "load_selected_preset"
            /\ preset_click_stage = 1
            /\ get_output_state(output_voltage)) =>
               \A sel \in 1..Len(preset_listbox), x \in Outcomes({""}, {}) :
                   (load_selected_preset(sel, x, x) /\ SelectedName(sel) # None) =>
                       /\ preset_click_stage' = 0
                       /\ FloatOf[voltage_entry'] = presets[SelectedName(sel)].voltage
                       /\ FloatOf[current_entry'] = presets[SelectedName(sel)].current
                       /\ calls' = <<"voltage " \o voltage_entry',
                                     "current " \o current_entry'>>
      ]_vars

\* a confirmation armed on the live output of the first tick is still armed
\* after the output was measured off and then on again
C22_Witness ==
    /\ preset_click_stage = 1
    /\ last = "periodic_refresh"
    /\ voltage_history = <<50, 2, 50>>
    /\ get_output_state(output_voltage)

\* C23: the stored output voltage changes only in a tick of a connected
\* session: disconnect, connect (opening or failing) and ticks without a
\* connection leave it at the last measured value; so with no connection held,
\* the last measurement above 0.5 V and the gate Idle, a load of a preset sends
\* nothing, leaves the entries alone and arms the gate.
C23_OutputVoltageOnlyByTick ==
    [][ /\ output_voltage' # output_voltage =>
               (last' = "periodic_refresh" /\ serial_conn = Serial)
        /\ (/\ last' = "load_selected_preset"
            /\ serial_conn = None
            /\ preset_click_stage = 0
            /\ output_voltage > 5) =>
               \A sel \in 1..Len(preset_listbox), x \in Outcomes({""}, {}) :
                   (load_selected_preset(sel, x, x) /\ SelectedName(sel) # None) =>
                       /\ preset_click_stage' = 1
                       /\ calls' = <<>>
                       /\ wire' = <<>>
                       /\ UNCHANGED <<voltage_entry, current_entry>>
      ]_vars

\* the session was disconnected while the last measurement was 5.0 V, and the
\* output still counts as active
C23_Witness ==
    /\ last = "disconnect"
    /\ serial_conn = None
    /\ output_voltage = 50
    /\ get_output_state(output_voltage)
    /\ preset_click_stage = 0

\* C24: the two histories always have the same length: every tick of a
\* connected session adds one sample to each (up to the capacity of 100),
\* whatever the replies are and even when the handler raises afterwards, and no
\* other handler changes them.
C24_HistoriesSameLength ==
    /\ [](Len(voltage_history) = Len(current_history))
    /\ [][IF ConnectedTick
          THEN LET grown(n) == IF n < 100 THEN n + 1 ELSE 100
               IN /\ Len(voltage_history') = grown(Len(voltage_history))
                  /\ Len(current_history') = grown(Len(current_history))
          ELSE UNCHANGED <<voltage_history, current_history>>
         ]_vars

\* a tick whose handler raised still recorded a sample in each full history
C24_Witness ==
    /\ last = "periodic_refresh"
    /\ pending = 0
    /\ Len(voltage_history) = 100
    /\ Len(current_history) = 100
    /\ voltage_history[100] = 50
    /\ current_history[100] = 0

\* the number of samples above 0.5 V at the end of vs
RECURSIVE ActiveRun(_)
ActiveRun(vs) ==
    IF vs = <<>> THEN 0
    ELSE IF vs[Len(vs)] <= 5 THEN 0
    ELSE 1 + ActiveRun(SubSeq(vs, 1, Len(vs) - 1))

\* the last n samples of s
LastN(s, n) == SubSeq(s, Len(s) - n + 1, Len(s))

\* C25: in a first run (timer and energy "reset on output off", all "no
\* reset") with no manual reset, as long as every tick so far has completed,
\* elapsed_seconds is the number of consecutive active ticks up to the last one
\* (0 when the last tick found the output inactive) and energy_ws is the sum of
\* voltage * current over exactly those ticks.
C25_DefaultPolicyStreak ==
    (pending = 1 /\ Len(voltage_history) < 100) =>
        /\ elapsed_seconds = ActiveRun(voltage_history)
        /\ energy_ws = SumProducts(LastN(voltage_history, ActiveRun(voltage_history)),
                                   LastN(current_history, ActiveRun(voltage_history)))

\* two active ticks in a row of 5.0 V * 1.0 A have been counted in a first run
C25_Witness ==
    /\ last = "periodic_refresh"
    /\ pending = 1
    /\ auto_reset_mode = DefaultModes
    /\ voltage_history = <<50, 50>>
    /\ current_history = <<10, 10>>
    /\ elapsed_seconds = 2
    /\ energy_ws = 1000

====
